---------------------------- MODULE Spec2Model ----------------------------
(***************************************************************************)
(* Model of source/server/server.cc: the InitManagerImpl barrier and the   *)
(* InstanceImpl lifecycle (constructor, initialize, startWorkers, run,     *)
(* signal handlers, shutdownAdmin).                                        *)
(*                                                                         *)
(* The main thread is a sequential program with nested calls.  `stack` is *)
(* its call stack: each element is the label of the statement at which the *)
(* frame stands, the last element being the running frame.  Collaborators  *)
(* whose code is outside server.cc (dispatcher, cluster manager, hot       *)
(* restarter and parent process, init targets, workers) are modelled by    *)
(* their contract.                                                         *)
(***************************************************************************)
EXTENDS Naturals, Integers, Sequences, FiniteSets, TLC

\* ------------------------------------------------------------------ bounds
MaxTargets == 2          \* init targets that may register
MaxConcurrency == 2      \* largest options.concurrency() tried
MaxListeners == 2        \* listeners in the parsed configuration

Targets == 1..MaxTargets
Listeners == 1..MaxListeners
Signals == {"SIGTERM", "SIGUSR1", "SIGHUP"}

\* time(nullptr) in this process, and the start time the parent hands over
ChildStartTime == 7
ParentStartTime == 3
\* time(nullptr) when flushStats runs
FlushTime == 9

VARIABLES
  stack,               \* call stack of the main thread
  concurrency,         \* options.concurrency()
  hasParent,           \* a parent process exists (restart epoch > 0)
  parentSockets,       \* addresses in the parent's socket_map_ (those of the
                       \* first k listeners of this process, for some k)
  parentAdmin,         \* the parent's admin listener is registered
  parentListening,     \* the parent's data listeners accept
  parentAlive,         \* the parent process has not been terminated
  live,                \* server_stats_.live_
  original_start_time, \* original_start_time_
  versionSet,          \* server_stats_.version_ was set
  restarterInit,       \* restarter_.initialize() was called
  drain_manager,       \* drain_manager_ was created
  adminRegistered,     \* admin_ is registered on handler_
  workers,             \* workers_: state of each Worker
  tlsMain,             \* thread_local_ state of the main thread
  statsThreading,      \* stats_store_ threading state
  socket_map,          \* socket_map_: listener -> ListenSocket
  sockIt,              \* position of the listener loop of initialize()
  sigInstalled,        \* sigterm_, sig_usr_1_, sig_hup_ are set
  stat_flush_timer,    \* stat_flush_timer_
  state_,              \* InitManagerImpl::state_
  targets_,            \* InitManagerImpl::targets_
  callback_,           \* InitManagerImpl::callback_ is set
  imIt,                \* iterator of the range-for over targets_
  imStale,             \* the node the iterator points to was erased
  cbTarget,            \* target captured by the running completion callback
  pendingCb,           \* targets initialized that will call back later
  cmInitialized,       \* cluster manager: all clusters initialized
  cmCb,                \* cluster manager's initialized callback
  exitRequested,       \* dispatcher.exit() was called
  selfTerm,            \* a SIGTERM sent by shutdown() is pending
  swIt,                \* position of the worker loop of startWorkers()
  successorAdmin,      \* a child of this process has its admin listener
  posted,              \* per worker: a task posted to its dispatcher is queued
  closed,              \* per worker: its handler's listeners were closed
  uptime_,             \* server_stats_.uptime_ (-1: never set)
  debugBuild,          \* the build checks ASSERT (NDEBUG is not defined)
  hist                 \* record of observations (counters of calls)

envVars == <<concurrency, hasParent, parentSockets>>
parentVars == <<parentAdmin, parentListening, parentAlive>>
ctorVars == <<live, original_start_time, versionSet, restarterInit, drain_manager>>
wireVars == <<adminRegistered, workers, tlsMain, statsThreading, sigInstalled,
              stat_flush_timer>>
sockVars == <<socket_map, sockIt>>
imVars == <<state_, targets_, callback_, imIt, imStale, cbTarget, pendingCb>>
cmVars == <<cmInitialized, cmCb>>
loopVars == <<exitRequested, selfTerm, successorAdmin>>
handlerVars == <<posted, closed>>
restVars == <<handlerVars, uptime_, debugBuild>>
vars == <<stack, envVars, parentVars, ctorVars, wireVars, sockVars, imVars, cmVars,
          loopVars, swIt, restVars, hist>>

\* ----------------------------------------------------------------- helpers
pc == stack[Len(stack)]

Goto(l) == stack' = [stack EXCEPT ![Len(stack)] = l]

\* leave the caller at `ret` and enter the callee at `entry`
Call(ret, entry) == stack' = Append([stack EXCEPT ![Len(stack)] = ret], entry)

Return == stack' = SubSeq(stack, 1, Len(stack) - 1)

\* the process ends: exit(), abort or return from main
Halt(l) == stack' = <<l>>

InFrame(l) == \E i \in 1..Len(stack) : stack[i] = l

Bump(f) == [hist EXCEPT ![f] = @ + 1]

\* std::max(1U, options.concurrency())
NumWorkers == IF concurrency < 1 THEN 1 ELSE concurrency

\* std::list::remove
ListRemove(s, t) == SelectSeq(s, LAMBDA x : x # t)

Range(s) == {s[i] : i \in 1..Len(s)}

\* ---------------------------------------------------------------- initial
\* the members of InstanceImpl and InitManagerImpl when the body of the
\* constructor starts.  server_stats_.live_ lives in shared memory: it holds
\* what the parent left there, or the initial value of a new gauge
InitServer ==
  /\ stack = <<"ctor_failHealthcheck">>
  /\ concurrency \in 0..MaxConcurrency
  /\ hasParent \in BOOLEAN
  /\ parentSockets \in (IF hasParent THEN {1..k : k \in 0..MaxListeners} ELSE {{}})
  /\ parentAdmin = hasParent
  /\ parentListening = hasParent
  /\ parentAlive = hasParent
  /\ live \in BOOLEAN
  /\ original_start_time = ChildStartTime
  /\ versionSet = FALSE
  /\ restarterInit = FALSE
  /\ drain_manager = FALSE
  /\ adminRegistered = FALSE
  /\ workers = <<>>
  /\ tlsMain = "none"
  /\ statsThreading = "off"
  /\ socket_map = <<>>
  /\ sockIt = 0
  /\ sigInstalled = FALSE
  /\ stat_flush_timer = "null"
  /\ state_ = "NotInitialized"
  /\ targets_ = <<>>
  /\ callback_ = FALSE
  /\ imIt = 0
  /\ imStale = FALSE
  /\ cbTarget = 0
  /\ pendingCb = {}
  /\ cmInitialized = FALSE
  /\ cmCb = "unset"
  /\ exitRequested = FALSE
  /\ selfTerm = FALSE
  /\ swIt = 0
  /\ successorAdmin = FALSE
  /\ posted = <<>>
  /\ closed = <<>>
  /\ uptime_ = -1
  /\ hist = [startWorkers |-> 0,      \* calls of startWorkers()
             imReturned |-> FALSE,   \* InitManagerImpl::initialize returned
             registered |-> {},      \* targets passed to registerTarget
             targetInit |-> [t \in Targets |-> 0],  \* calls of target->initialize
             calledBack |-> {},      \* targets whose completion callback ran
             initCfg |-> <<>>,       \* calls of initializeConfiguration per worker
             threw |-> <<>>,         \* workers that raised CreateListenerException
             dup |-> [l \in Listeners |-> 0],  \* duplicateParentListenSocket calls
             dupFd |-> [l \in Listeners |-> 0],  \* what the last such call returned
             drainParent |-> 0,      \* calls of drainParentListeners
             parentShutdownSeq |-> 0,\* calls of startParentShutdownSequence
             terminateParent |-> 0,  \* calls of terminateParent
             shutdown |-> 0,         \* calls of shutdown()
             reopened |-> FALSE,     \* access_log_manager_.reopen() was called
             flushed |-> FALSE,      \* flushStats() was called
             sigterm |-> 0,          \* terminateParent calls of the SIGTERM callback
             initThrew |-> FALSE,    \* initialize() raised EnvoyException
             tlsShutdown |-> 0,      \* calls of thread_local_.shutdownThread()
             shutdownAdmin |-> 0,    \* calls of shutdownAdmin()
             teardown |-> <<>>,      \* steps of run() after the loop, in order
             runEntered |-> FALSE,   \* run() was entered
             shaInvalid |-> FALSE,   \* the build SHA did not parse
             drainFile |-> FALSE,    \* flags path set and file drain exists
             failArg |-> {},         \* argument of the last failHealthcheck
             access |-> {},          \* accesses of the main thread to the
                                     \* ConnectionHandler of a running worker
             drainListeners |-> 0,   \* calls of drainListeners()
             lateRegistered |-> {},  \* targets registered after initialize
                                     \* was entered
             flushNoTimer |-> FALSE, \* flushStats ran with stat_flush_timer_ null
             flushAfterAdmin |-> FALSE,  \* flushStats ran after shutdownAdmin
             dupRegistered |-> {},   \* targets passed to registerTarget twice
             dupCallback |-> FALSE,  \* a target called back a second time
             removedMany |-> FALSE]  \* a completion callback removed more than
                                     \* one entry of targets_

\* the server as it is built for production: ASSERT compiles to nothing
Init == InitServer /\ debugBuild = FALSE

\* the server in either build, for callers that break a precondition
InitMisuse == InitServer /\ debugBuild \in BOOLEAN


\* ------------------------------------------- InstanceImpl::InstanceImpl

\* mutant: the gauge is set to the argument instead of its negation
failHealthcheck_inverted(fail, h) ==
  /\ live' = fail
  /\ hist' = [h EXCEPT !.failArg = {fail}]

\* failHealthcheck(fail): server_stats_.live_.set(!fail); h is the record of
\* observations so far
failHealthcheck(fail, h) ==
  /\ live' = ~fail
  /\ hist' = [h EXCEPT !.failArg = {fail}]

\* healthCheckFailed(): server_stats_.live_.value() == 0
healthCheckFailed == live = FALSE

CtorFailHealthcheck ==
  /\ pc = "ctor_failHealthcheck"
  /\ failHealthcheck(FALSE, hist)
  /\ Goto("ctor_version")
  /\ UNCHANGED <<restVars, envVars, parentVars, original_start_time, versionSet, restarterInit,
                 drain_manager, wireVars, sockVars, imVars, cmVars, loopVars, swIt>>

\* the build SHA is parsed; an unparseable SHA throws outside the try block
CtorVersion ==
  /\ pc = "ctor_version"
  /\ \E shaValid \in BOOLEAN :
       IF shaValid
         THEN /\ versionSet' = TRUE
              /\ hist' = hist
              /\ Goto("ctor_restarterInit")
         ELSE /\ versionSet' = versionSet
              /\ hist' = [hist EXCEPT !.shaInvalid = TRUE]
              /\ Halt("ctor_threw")
  /\ UNCHANGED <<restVars, envVars, parentVars, live, original_start_time, restarterInit,
                 drain_manager, wireVars, sockVars, imVars, cmVars, loopVars, swIt>>

CtorRestarterInit ==
  /\ pc = "ctor_restarterInit"
  /\ restarterInit' = TRUE
  /\ Goto("ctor_drainManager")
  /\ UNCHANGED <<restVars, envVars, parentVars, live, original_start_time, versionSet,
                 drain_manager, wireVars, sockVars, imVars, cmVars, loopVars, swIt, hist>>

CtorDrainManager ==
  /\ pc = "ctor_drainManager"
  /\ drain_manager' = TRUE
  /\ Goto("init_loadConfig")
  /\ UNCHANGED <<restVars, envVars, parentVars, live, original_start_time, versionSet,
                 restarterInit, wireVars, sockVars, imVars, cmVars, loopVars, swIt, hist>>

\* an EnvoyException raised inside initialize() unwinds to the catch block
Throw ==
  /\ stack' = <<"catch_shutdownThread">>
  /\ hist' = [hist EXCEPT !.initThrew = TRUE]


\* mutant: the catch block exits without thread_local_.shutdownThread()
CtorCatch_noTeardown ==
  /\ pc = "catch_shutdownThread"
  /\ Halt("exit1")
  /\ UNCHANGED <<restVars, envVars, parentVars, ctorVars, wireVars, sockVars, imVars, cmVars,
                 loopVars, swIt, hist>>

\* catch (const EnvoyException&): thread_local_.shutdownThread(); exit(1)
CtorCatch ==
  /\ pc = "catch_shutdownThread"
  /\ tlsMain' = "shutdown"
  /\ hist' = Bump("tlsShutdown")
  /\ Halt("exit1")
  /\ UNCHANGED <<restVars, envVars, parentVars, ctorVars, adminRegistered, workers, statsThreading,
                 sigInstalled, stat_flush_timer, sockVars, imVars, cmVars, loopVars, swIt>>

\* --------------------------------------------- InstanceImpl::initialize
\* Json::Factory::loadFromFile and Configuration::InitialImpl; both may throw
InitLoadConfig ==
  /\ pc = "init_loadConfig"
  /\ \E ok \in BOOLEAN :
       IF ok THEN Goto("init_shutdownParentAdmin") /\ hist' = hist
             ELSE Throw
  /\ UNCHANGED <<restVars, envVars, parentVars, ctorVars, wireVars, sockVars, imVars, cmVars,
                 loopVars, swIt>>


\* mutant: shutdownAdmin leaves the admin listener registered
AdminAfterShutdown_stillOpen(registered) == registered

\* InstanceImpl::shutdownAdmin: the admin listener of a process after it ran
\* handler_.closeListeners() and admin_->mutable_socket().close()
AdminAfterShutdown(registered) == FALSE

\* restarter_.shutdownParentAdmin(info): the parent runs shutdownAdmin() and
\* replies with its original start time; without a parent info is left as set
InitShutdownParentAdmin ==
  /\ pc = "init_shutdownParentAdmin"
  /\ IF hasParent
       THEN /\ parentAdmin' = AdminAfterShutdown(parentAdmin)
            /\ original_start_time' = ParentStartTime
       ELSE /\ parentAdmin' = parentAdmin
            /\ original_start_time' = original_start_time
  /\ Goto("init_admin")
  /\ UNCHANGED <<restVars, envVars, parentListening, parentAlive, live, versionSet, restarterInit,
                 drain_manager, wireVars, sockVars, imVars, cmVars, loopVars, swIt, hist>>

\* admin_.reset(new AdminImpl(...)): binds the admin socket, which may throw
InitAdmin ==
  /\ pc = "init_admin"
  /\ \E ok \in BOOLEAN :
       IF ok THEN Goto("init_addAdminListener") /\ hist' = hist
             ELSE Throw
  /\ UNCHANGED <<restVars, envVars, parentVars, ctorVars, wireVars, sockVars, imVars, cmVars,
                 loopVars, swIt>>

\* handler_.addListener(*admin_, ...)
InitAddAdminListener ==
  /\ pc = "init_addAdminListener"
  /\ adminRegistered' = TRUE
  /\ Goto("init_loadServerFlags")
  /\ UNCHANGED <<restVars, envVars, parentVars, ctorVars, workers, tlsMain, statsThreading,
                 sigInstalled, stat_flush_timer, sockVars, imVars, cmVars, loopVars,
                 swIt, hist>>

\* loadServerFlags(flags_path)
loadServerFlags(flagsPathValid, drainFileExists, h) ==
  IF ~flagsPathValid
    THEN live' = live /\ hist' = h
    ELSE IF drainFileExists THEN failHealthcheck(TRUE, h)
                            ELSE live' = live /\ hist' = h

\* loadServerFlags(initial_config.flagsPath()); the flags path may be unset and
\* the file drain may exist under it
InitLoadServerFlags ==
  /\ pc = "init_loadServerFlags"
  /\ \E flagsPathValid \in BOOLEAN, drainFileExists \in BOOLEAN :
       loadServerFlags(flagsPathValid, drainFileExists,
                       [hist EXCEPT !.drainFile = flagsPathValid /\ drainFileExists])
  /\ Goto("init_workers")
  /\ UNCHANGED <<restVars, envVars, parentVars, original_start_time, versionSet, restarterInit,
                 drain_manager, wireVars, sockVars, imVars, cmVars, loopVars, swIt>>

\* workers_.emplace_back(new Worker(...)) for max(1, concurrency) workers
InitWorkers ==
  /\ pc = "init_workers"
  /\ workers' = [w \in 1..NumWorkers |-> "constructed"]
  /\ posted' = [w \in 1..NumWorkers |-> FALSE]
  /\ closed' = [w \in 1..NumWorkers |-> FALSE]
  /\ hist' = [hist EXCEPT !.initCfg = [w \in 1..NumWorkers |-> 0]]
  /\ Goto("init_registerThread")
  /\ UNCHANGED <<uptime_, debugBuild, envVars, parentVars, ctorVars, adminRegistered, tlsMain, statsThreading,
                 sigInstalled, stat_flush_timer, sockVars, imVars, cmVars, loopVars, swIt>>


\* mutant: the main thread is not registered
InitRegisterThread_skip ==
  /\ pc = "init_registerThread"
  /\ Goto("init_statsThreading")
  /\ UNCHANGED <<restVars, envVars, parentVars, ctorVars, wireVars, sockVars, imVars,
                 cmVars, loopVars, swIt, hist>>

\* thread_local_.registerThread(handler_.dispatcher(), true)
InitRegisterThread ==
  /\ pc = "init_registerThread"
  /\ tlsMain' = "registered"
  /\ Goto("init_statsThreading")
  /\ UNCHANGED <<restVars, envVars, parentVars, ctorVars, adminRegistered, workers, statsThreading,
                 sigInstalled, stat_flush_timer, sockVars, imVars, cmVars, loopVars,
                 swIt, hist>>

\* stats_store_.initializeThreading(...), then runtime, SSL context manager and
\* cluster manager factory are created
InitStatsThreading ==
  /\ pc = "init_statsThreading"
  /\ statsThreading' = "on"
  /\ Goto("init_mainConfig")
  /\ UNCHANGED <<restVars, envVars, parentVars, ctorVars, adminRegistered, workers, tlsMain,
                 sigInstalled, stat_flush_timer, sockVars, imVars, cmVars, loopVars,
                 swIt, hist>>

\* InitManagerImpl::registerTarget: ASSERT(state_ == NotInitialized);
\* targets_.push_back(&target)
registerTarget(t) ==
  /\ state_ = "NotInitialized"
  /\ targets_' = Append(targets_, t)

\* main_config->initialize(*config_json) registers init targets while it parses
\* the configuration: each target registers once (targets are interchangeable,
\* so they register in the order of their numbers)
RegisterTarget ==
  /\ pc = "init_mainConfig"
  /\ \E t \in {u \in Targets : u = Cardinality(hist.registered) + 1} :
       /\ registerTarget(t)
       /\ hist' = [hist EXCEPT !.registered = @ \cup {t}]
  /\ UNCHANGED <<restVars, stack, envVars, parentVars, ctorVars, wireVars, sockVars, state_,
                 callback_, imIt, imStale, cbTarget, pendingCb, cmVars, loopVars, swIt>>

\* main_config->initialize(*config_json) ends: it may throw; the cluster manager
\* it created has all clusters initialized already, or initializes them later
InitMainConfig ==
  /\ pc = "init_mainConfig"
  /\ \E ok \in BOOLEAN, allClustersReady \in BOOLEAN :
       IF ok
         THEN /\ cmInitialized' = allClustersReady
              /\ sockIt' = 1
              /\ Goto("init_sockets")
              /\ hist' = hist
         ELSE /\ cmInitialized' = cmInitialized
              /\ sockIt' = sockIt
              /\ Throw
  /\ UNCHANGED <<restVars, envVars, parentVars, ctorVars, wireVars, socket_map, imVars, cmCb,
                 loopVars, swIt>>

\* the address a listener is configured with, and the descriptors handed out
Address(l) == l
ParentFd(a) == 100 + a
FreshFd(l) == 200 + l

\* the parent's socket_map_
ParentSocketMap ==
  [a \in parentSockets |-> [fd |-> ParentFd(a), address |-> a, origin |-> "bound"]]


\* mutant: 0 instead of -1 when no socket is bound to the address
getListenSocketFd_zero(map, address) ==
  IF \E k \in DOMAIN map : map[k].address = address
    THEN map[CHOOSE k \in DOMAIN map : map[k].address = address].fd
    ELSE 0

\* InstanceImpl::getListenSocketFd: the fd of the entry bound to `address`, or -1
getListenSocketFd(map, address) ==
  IF \E k \in DOMAIN map : map[k].address = address
    THEN map[CHOOSE k \in DOMAIN map : map[k].address = address].fd
    ELSE -1

\* restarter_.duplicateParentListenSocket(addr): the parent answers with
\* getListenSocketFd(addr); without a parent the answer is -1
duplicateParentListenSocket(address) ==
  IF hasParent /\ parentAlive THEN getListenSocketFd(ParentSocketMap, address) ELSE -1

\* socket_map_[key].reset(socket)
MapPut(map, key, socket) ==
  [k \in DOMAIN map \cup {key} |-> IF k = key THEN socket ELSE map[k]]

\* one iteration of the loop over config_->listeners(): ask the parent for the
\* socket, wrap its fd or bind a new socket (binding may throw)
InitSockets ==
  /\ pc = "init_sockets"
  /\ sockIt <= MaxListeners
  /\ LET l == sockIt
         fd == duplicateParentListenSocket(Address(l))
         asked == [hist EXCEPT !.dup[l] = @ + 1, !.dupFd[l] = fd]
     IN IF fd # -1
          THEN /\ socket_map' = MapPut(socket_map, l,
                                  [fd |-> fd, address |-> Address(l), origin |-> "parent"])
               /\ sockIt' = sockIt + 1
               /\ hist' = asked
               /\ stack' = stack
          ELSE \E bound \in BOOLEAN :
                 IF bound
                   THEN /\ socket_map' = MapPut(socket_map, l,
                                  [fd |-> FreshFd(l), address |-> Address(l),
                                   origin |-> "bound"])
                        /\ sockIt' = sockIt + 1
                        /\ hist' = asked
                        /\ stack' = stack
                   ELSE /\ socket_map' = socket_map
                        /\ sockIt' = sockIt
                        /\ stack' = <<"catch_shutdownThread">>
                        /\ hist' = [asked EXCEPT !.initThrew = TRUE]
  /\ UNCHANGED <<restVars, envVars, parentVars, ctorVars, wireVars, imVars, cmVars, loopVars, swIt>>

\* the loop over the listeners ends; listenForSignal for SIGTERM, SIGUSR1, SIGHUP
InitSignals ==
  /\ pc = "init_sockets"
  /\ sockIt > MaxListeners
  /\ sigInstalled' = TRUE
  /\ Goto("init_statSinks")
  /\ UNCHANGED <<restVars, envVars, parentVars, ctorVars, adminRegistered, workers, tlsMain,
                 statsThreading, stat_flush_timer, sockVars, imVars, cmVars, loopVars,
                 swIt, hist>>

\* initializeStatSinks(): parsing the statsd address may throw
InitStatSinks ==
  /\ pc = "init_statSinks"
  /\ \E ok \in BOOLEAN :
       IF ok THEN Goto("init_flushTimer") /\ hist' = hist
             ELSE Throw
  /\ UNCHANGED <<restVars, envVars, parentVars, ctorVars, wireVars, sockVars, imVars, cmVars,
                 loopVars, swIt>>

\* stat_flush_timer_ = createTimer(...); enableTimer(...); guard_dog_.reset(...)
InitFlushTimer ==
  /\ pc = "init_flushTimer"
  /\ stat_flush_timer' = "armed"
  /\ Goto("init_setInitializedCb")
  /\ UNCHANGED <<restVars, envVars, parentVars, ctorVars, adminRegistered, workers, tlsMain,
                 statsThreading, sigInstalled, sockVars, imVars, cmVars, loopVars,
                 swIt, hist>>


\* mutant: the callback given to setInitializedCb calls startWorkers directly
InitializedCb_direct == "sw_entry"

\* the callback given to setInitializedCb calls
\* init_manager_.initialize([..] { startWorkers(hooks); })
InitializedCb == "im_entry"

\* clusterManager().setInitializedCb(cb): the cluster manager runs cb at once
\* when all clusters are initialized, and keeps it otherwise
InitSetInitializedCb ==
  /\ pc = "init_setInitializedCb"
  /\ IF cmInitialized
       THEN cmCb' = "fired" /\ Call("ctor_return", InitializedCb)
       ELSE cmCb' = "set" /\ Goto("ctor_return")
  /\ UNCHANGED <<restVars, envVars, parentVars, ctorVars, wireVars, sockVars, imVars,
                 cmInitialized, loopVars, swIt, hist>>


\* mutant: with no target the callback is not called
ImEntry_noCall ==
  /\ pc = "im_entry"
  /\ state_ = "NotInitialized"
  /\ IF targets_ = <<>>
       THEN /\ Goto("im_fast_setState")
            /\ UNCHANGED <<restVars, state_, callback_, imIt, imStale>>
       ELSE /\ callback_' = TRUE
            /\ state_' = "Initializing"
            /\ imIt' = 1
            /\ imStale' = FALSE
            /\ Goto("im_loop")
  /\ UNCHANGED <<restVars, envVars, parentVars, ctorVars, wireVars, sockVars, targets_, cbTarget,
                 pendingCb, cmVars, loopVars, swIt, hist>>

\* ------------------------------------------ InitManagerImpl::initialize
\* ASSERT(state_ == NotInitialized); with no target the callback runs at once,
\* otherwise it is stored and the loop over targets_ starts
ImEntry ==
  /\ pc = "im_entry"
  /\ state_ = "NotInitialized"
  /\ IF targets_ = <<>>
       THEN /\ Call("im_fast_setState", "sw_entry")
            /\ UNCHANGED <<restVars, state_, callback_, imIt, imStale>>
       ELSE /\ callback_' = TRUE
            /\ state_' = "Initializing"
            /\ imIt' = 1
            /\ imStale' = FALSE
            /\ Goto("im_loop")
  /\ UNCHANGED <<restVars, envVars, parentVars, ctorVars, wireVars, sockVars, targets_, cbTarget,
                 pendingCb, cmVars, loopVars, swIt, hist>>

\* state_ = State::Initialized after callback() returned; initialize returns
ImFastSetState ==
  /\ pc = "im_fast_setState"
  /\ state_' = "Initialized"
  /\ hist' = [hist EXCEPT !.imReturned = TRUE]
  /\ Return
  /\ UNCHANGED <<restVars, envVars, parentVars, ctorVars, wireVars, sockVars, targets_, callback_,
                 imIt, imStale, cbTarget, pendingCb, cmVars, loopVars, swIt>>

\* target->initialize(cb) for the target the iterator points to.  The target
\* calls cb before it returns, or keeps it and calls it later from the main loop
ImInitTarget ==
  /\ pc = "im_loop"
  /\ imIt <= Len(targets_)
  /\ LET t == targets_[imIt]
     IN /\ hist' = [hist EXCEPT !.targetInit[t] = @ + 1]
        /\ \E synchronous \in BOOLEAN :
             IF synchronous
               THEN /\ cbTarget' = t
                    /\ pendingCb' = pendingCb
                    /\ Call("im_advance", "cb_entry")
               ELSE /\ cbTarget' = cbTarget
                    /\ pendingCb' = pendingCb \cup {t}
                    /\ Goto("im_advance")
  /\ UNCHANGED <<restVars, envVars, parentVars, ctorVars, wireVars, sockVars, state_, targets_,
                 callback_, imIt, imStale, cmVars, loopVars, swIt>>

\* ++it of the range-for.  When the node the iterator stands on was erased by
\* the completion callback, the increment reads freed memory: the build either
\* still finds the old link to the following node, or the process crashes
ImAdvance ==
  /\ pc = "im_advance"
  /\ IF imStale
       THEN \E linkIntact \in BOOLEAN :
              IF linkIntact
                THEN imStale' = FALSE /\ imIt' = imIt /\ Goto("im_loop")
                ELSE imStale' = imStale /\ imIt' = imIt /\ Halt("crashed")
       ELSE imStale' = imStale /\ imIt' = imIt + 1 /\ Goto("im_loop")
  /\ UNCHANGED <<restVars, envVars, parentVars, ctorVars, wireVars, sockVars, state_, targets_,
                 callback_, cbTarget, pendingCb, cmVars, loopVars, swIt, hist>>


\* mutant: state_ = State::Initializing is assigned after the loop instead of
\* before it
ImLoopEnd_lateState ==
  /\ pc = "im_loop"
  /\ imIt > Len(targets_)
  /\ imIt' = 0
  /\ state_' = "Initializing"
  /\ hist' = [hist EXCEPT !.imReturned = TRUE]
  /\ Return
  /\ UNCHANGED <<restVars, envVars, parentVars, ctorVars, wireVars, sockVars, targets_,
                 callback_, imStale, cbTarget, pendingCb, cmVars, loopVars, swIt>>

\* the iterator reached targets_.end(): initialize returns
ImLoopEnd ==
  /\ pc = "im_loop"
  /\ imIt > Len(targets_)
  /\ imIt' = 0
  /\ hist' = [hist EXCEPT !.imReturned = TRUE]
  /\ Return
  /\ UNCHANGED <<restVars, envVars, parentVars, ctorVars, wireVars, sockVars, state_, targets_,
                 callback_, imStale, cbTarget, pendingCb, cmVars, loopVars, swIt>>

\* the iterator after targets_.remove(t): it stays on its node; when that node
\* is the one erased it is left dangling, its old link leading to the node
\* that followed
ItAfterRemove(t) ==
  imIt - Cardinality({i \in 1..(imIt - 1) : i <= Len(targets_) /\ targets_[i] = t})

ItErased(t) == imIt \in 1..Len(targets_) /\ targets_[imIt] = t


\* mutant: the completion callback calls callback_ without testing
\* targets_.empty()
CbEntry_noEmptyTest ==
  /\ pc = "cb_entry"
  /\ cbTarget \in Range(targets_)
  /\ targets_' = ListRemove(targets_, cbTarget)
  /\ hist' = [hist EXCEPT !.calledBack = @ \cup {cbTarget}]
  /\ IF InFrame("im_advance")
       THEN /\ imIt' = ItAfterRemove(cbTarget)
            /\ imStale' = (imStale \/ ItErased(cbTarget))
       ELSE UNCHANGED <<imIt, imStale>>
  /\ state_' = "Initialized" /\ Call("cb_return", "sw_entry")
  /\ UNCHANGED <<restVars, envVars, parentVars, ctorVars, wireVars, sockVars, callback_, cbTarget,
                 pendingCb, cmVars, loopVars, swIt>>

\* the completion callback of `cbTarget`: ASSERT(the target is in targets_),
\* which aborts a debug build when it fails; targets_.remove(target), which
\* removes every entry equal to target; if (targets_.empty()) { state_ =
\* Initialized; callback_(); }
CbEntry ==
  /\ pc = "cb_entry"
  /\ IF debugBuild /\ cbTarget \notin Range(targets_)
       THEN /\ Halt("aborted")
            /\ UNCHANGED <<targets_, hist, imIt, imStale, state_>>
       ELSE /\ targets_' = ListRemove(targets_, cbTarget)
            /\ hist' = [hist EXCEPT
                 !.calledBack = @ \cup {cbTarget},
                 !.removedMany = @ \/ Len(targets_) > Len(ListRemove(targets_, cbTarget)) + 1]
            /\ IF InFrame("im_advance")
                 THEN /\ imIt' = ItAfterRemove(cbTarget)
                      /\ imStale' = (imStale \/ ItErased(cbTarget))
                 ELSE UNCHANGED <<imIt, imStale>>
            /\ IF ListRemove(targets_, cbTarget) = <<>>
                 THEN state_' = "Initialized" /\ Call("cb_return", "sw_entry")
                 ELSE state_' = state_ /\ Goto("cb_return")
  /\ UNCHANGED <<restVars, envVars, parentVars, ctorVars, wireVars, sockVars, callback_, cbTarget,
                 pendingCb, cmVars, loopVars, swIt>>

CbReturn ==
  /\ pc = "cb_return"
  /\ cbTarget' = 0
  /\ Return
  /\ UNCHANGED <<restVars, envVars, parentVars, ctorVars, wireVars, sockVars, state_, targets_,
                 callback_, imIt, imStale, pendingCb, cmVars, loopVars, swIt, hist>>

\* ------------------------------------------- InstanceImpl::startWorkers
SwEntry ==
  /\ pc = "sw_entry"
  /\ swIt' = 1
  /\ hist' = Bump("startWorkers")
  /\ Goto("sw_loop")
  /\ UNCHANGED <<restVars, envVars, parentVars, ctorVars, wireVars, sockVars, imVars, cmVars,
                 loopVars>>

\* InstanceImpl::shutdown: kill(getpid(), SIGTERM)
shutdown == selfTerm' = TRUE


\* mutant: the loop over the workers is left when a worker raises
SwInitWorker_break ==
  /\ pc = "sw_loop"
  /\ swIt <= Len(workers)
  /\ \E listening \in BOOLEAN :
       IF listening
         THEN /\ workers' = [workers EXCEPT ![swIt] = "running"]
              /\ selfTerm' = selfTerm
              /\ hist' = [hist EXCEPT !.initCfg[swIt] = @ + 1]
              /\ swIt' = swIt + 1
         ELSE /\ workers' = workers
              /\ shutdown
              /\ hist' = [hist EXCEPT !.initCfg[swIt] = @ + 1,
                                      !.threw = Append(@, swIt),
                                      !.shutdown = @ + 1]
              /\ swIt' = Len(workers) + 1
  /\ UNCHANGED <<restVars, stack, envVars, parentVars, ctorVars, adminRegistered, tlsMain,
                 statsThreading, sigInstalled, stat_flush_timer, sockVars, imVars,
                 cmVars, exitRequested, successorAdmin>>

\* worker->initializeConfiguration(...): the worker's thread starts, or
\* CreateListenerException is raised, caught, and shutdown() is called
SwInitWorker ==
  /\ pc = "sw_loop"
  /\ swIt <= Len(workers)
  /\ \E listening \in BOOLEAN :
       IF listening
         THEN /\ workers' = [workers EXCEPT ![swIt] = "running"]
              /\ selfTerm' = selfTerm
              /\ hist' = [hist EXCEPT !.initCfg[swIt] = @ + 1]
         ELSE /\ workers' = workers
              /\ shutdown
              /\ hist' = [hist EXCEPT !.initCfg[swIt] = @ + 1,
                                      !.threw = Append(@, swIt),
                                      !.shutdown = @ + 1]
  /\ swIt' = swIt + 1
  /\ UNCHANGED <<restVars, stack, envVars, parentVars, ctorVars, adminRegistered, tlsMain,
                 statsThreading, sigInstalled, stat_flush_timer, sockVars, imVars,
                 cmVars, exitRequested, successorAdmin>>


\* mutant: the parent is told to drain one iteration before the loop ends
SwDrainParent_early ==
  /\ pc = "sw_loop"
  /\ swIt >= Len(workers)
  /\ parentListening' = FALSE
  /\ hist' = Bump("drainParent")
  /\ Goto("sw_parentShutdownSeq")
  /\ UNCHANGED <<restVars, envVars, parentAdmin, parentAlive, ctorVars, wireVars, sockVars,
                 imVars, cmVars, loopVars, swIt>>

\* restarter_.drainParentListeners(): the parent, if any, stops accepting
SwDrainParent ==
  /\ pc = "sw_loop"
  /\ swIt > Len(workers)
  /\ parentListening' = FALSE
  /\ hist' = Bump("drainParent")
  /\ Goto("sw_parentShutdownSeq")
  /\ UNCHANGED <<restVars, envVars, parentAdmin, parentAlive, ctorVars, wireVars, sockVars,
                 imVars, cmVars, loopVars, swIt>>

\* drain_manager_->startParentShutdownSequence(); hooks.onServerInitialized()
SwParentShutdownSeq ==
  /\ pc = "sw_parentShutdownSeq"
  /\ hist' = Bump("parentShutdownSeq")
  /\ Return
  /\ UNCHANGED <<restVars, envVars, parentVars, ctorVars, wireVars, sockVars, imVars, cmVars,
                 loopVars, swIt>>

\* --------------------------------------------------- InstanceImpl::run
\* the constructor returned; run() creates the watchdog and enters
\* handler_.dispatcher().run(Block)
RunEntry ==
  /\ pc = "ctor_return"
  /\ hist' = [hist EXCEPT !.runEntered = TRUE]
  /\ Goto("run_loop")
  /\ UNCHANGED <<restVars, envVars, parentVars, ctorVars, wireVars, sockVars, imVars, cmVars,
                 loopVars, swIt>>

\* the dispatcher is between two events and may run another one
Dispatching == pc = "run_loop" /\ ~exitRequested

HandlerOf(sig) ==
  CASE sig = "SIGTERM" -> "sigterm_terminateParent"
    [] sig = "SIGUSR1" -> "sigusr1_reopen"
    [] sig = "SIGHUP" -> "sighup_log"

\* a signal sent from outside is delivered to its listenForSignal callback
ExternalSignal ==
  /\ Dispatching
  /\ sigInstalled
  /\ \E sig \in Signals : Call("run_loop", HandlerOf(sig))
  /\ UNCHANGED <<restVars, envVars, parentVars, ctorVars, wireVars, sockVars, imVars, cmVars,
                 loopVars, swIt, hist>>

\* the SIGTERM that shutdown() sent to the own process is delivered
SelfSigterm ==
  /\ Dispatching
  /\ sigInstalled
  /\ selfTerm
  /\ selfTerm' = FALSE
  /\ Call("run_loop", HandlerOf("SIGTERM"))
  /\ UNCHANGED <<restVars, envVars, parentVars, ctorVars, wireVars, sockVars, imVars, cmVars,
                 exitRequested, successorAdmin, swIt, hist>>


\* mutant: the SIGTERM callback calls dispatcher().exit() first
SigtermTerminateParent_exitFirst ==
  /\ pc = "sigterm_terminateParent"
  /\ exitRequested' = TRUE
  /\ Goto("sigterm_exit")
  /\ UNCHANGED <<restVars, envVars, parentVars, ctorVars, wireVars, sockVars, imVars, cmVars,
                 selfTerm, successorAdmin, swIt, hist>>

\* SIGTERM callback, first statement: restarter_.terminateParent()
SigtermTerminateParent ==
  /\ pc = "sigterm_terminateParent"
  /\ parentAlive' = FALSE
  /\ hist' = [hist EXCEPT !.terminateParent = @ + 1, !.sigterm = @ + 1]
  /\ Goto("sigterm_exit")
  /\ UNCHANGED <<restVars, envVars, parentAdmin, parentListening, ctorVars, wireVars, sockVars,
                 imVars, cmVars, loopVars, swIt>>

\* SIGTERM callback, second statement: handler_.dispatcher().exit()
SigtermExit ==
  /\ pc = "sigterm_exit"
  /\ exitRequested' = TRUE
  /\ Return
  /\ UNCHANGED <<restVars, envVars, parentVars, ctorVars, wireVars, sockVars, imVars, cmVars,
                 selfTerm, successorAdmin, swIt, hist>>

\* SIGUSR1 callback: access_log_manager_.reopen()
Sigusr1 ==
  /\ pc = "sigusr1_reopen"
  /\ hist' = [hist EXCEPT !.reopened = TRUE]
  /\ Return
  /\ UNCHANGED <<restVars, envVars, parentVars, ctorVars, wireVars, sockVars, imVars, cmVars,
                 loopVars, swIt>>

\* SIGHUP callback: logs only
Sighup ==
  /\ pc = "sighup_log"
  /\ Return
  /\ UNCHANGED <<restVars, envVars, parentVars, ctorVars, wireVars, sockVars, imVars, cmVars,
                 loopVars, swIt, hist>>

\* the cluster manager finishes initializing its clusters and runs the callback
\* registered with setInitializedCb
CmInitialized ==
  /\ Dispatching
  /\ cmCb = "set"
  /\ cmInitialized' = TRUE
  /\ cmCb' = "fired"
  /\ Call("run_loop", InitializedCb)
  /\ UNCHANGED <<restVars, envVars, parentVars, ctorVars, wireVars, sockVars, imVars, loopVars,
                 swIt, hist>>

\* a target that kept its completion callback calls it
TargetCompletes ==
  /\ Dispatching
  /\ \E t \in pendingCb :
       /\ pendingCb' = pendingCb \ {t}
       /\ cbTarget' = t
  /\ Call("run_loop", "cb_entry")
  /\ UNCHANGED <<restVars, envVars, parentVars, ctorVars, wireVars, sockVars, state_, targets_,
                 callback_, imIt, imStale, cmVars, loopVars, swIt, hist>>

\* InstanceImpl::numConnections: reads worker->handler()->numConnections() of
\* every worker in the calling thread; h is the record of observations so far
numConnections(h) ==
  IF \E w \in DOMAIN workers : workers[w] = "running"
    THEN [h EXCEPT !.access = @ \cup {[op |-> "numConnections", thread |-> "main",
                                       writes |-> FALSE]}]
    ELSE h

\* InstanceImpl::getParentStats: info.num_connections_ = numConnections()
getParentStats(h) == numConnections(h)


\* mutant: the uptime is computed from start_time_
flushStats_ownStart(h) ==
  /\ uptime_' = FlushTime - ChildStartTime
  /\ stat_flush_timer' = "armed"
  /\ hist' = [numConnections(h) EXCEPT !.flushed = TRUE]

\* InstanceImpl::flushStats: uptime_.set(time(nullptr) - original_start_time_),
\* total_connections_.set(numConnections() + ...), the counters and gauges go
\* to the sinks, then stat_flush_timer_->enableTimer(...)
flushStats(h) ==
  /\ uptime_' = FlushTime - original_start_time
  /\ stat_flush_timer' = "armed"
  /\ hist' = [numConnections(h) EXCEPT
                !.flushed = TRUE,
                !.flushNoTimer = @ \/ stat_flush_timer = "null",
                !.flushAfterAdmin = @ \/ h.shutdownAdmin > 0]

\* the stats flush timer expires and its callback runs flushStats()
FlushTimer ==
  /\ Dispatching
  /\ stat_flush_timer = "armed"
  /\ flushStats(hist)
  /\ UNCHANGED <<handlerVars, debugBuild, stack, envVars, parentVars, ctorVars, adminRegistered, workers, tlsMain,
                 statsThreading, sigInstalled, sockVars, imVars, cmVars, loopVars, swIt>>

\* ------------------------------------------ InstanceImpl::shutdownAdmin
\* a child process asks this process to shut down its admin listener
ChildShutdownAdmin ==
  /\ Dispatching
  /\ hist.shutdownAdmin = 0
  /\ hist' = Bump("shutdownAdmin")
  /\ Call("run_loop", "sa_close")
  /\ UNCHANGED <<restVars, envVars, parentVars, ctorVars, wireVars, sockVars, imVars, cmVars,
                 loopVars, swIt>>

\* stat_flush_timer_.reset(); handler_.closeListeners(); admin socket close
ShutdownAdminClose ==
  /\ pc = "sa_close"
  /\ stat_flush_timer' = "null"
  /\ adminRegistered' = AdminAfterShutdown(adminRegistered)
  /\ Goto("sa_terminateParent")
  /\ UNCHANGED <<restVars, envVars, parentVars, ctorVars, workers, tlsMain, statsThreading,
                 sigInstalled, sockVars, imVars, cmVars, loopVars, swIt, hist>>

\* restarter_.terminateParent(); shutdownAdmin returns and the child, answered,
\* creates its own admin listener
ShutdownAdminTerminate ==
  /\ pc = "sa_terminateParent"
  /\ parentAlive' = FALSE
  /\ successorAdmin' = TRUE
  /\ hist' = Bump("terminateParent")
  /\ Return
  /\ UNCHANGED <<restVars, envVars, parentAdmin, parentListening, ctorVars, wireVars, sockVars,
                 imVars, cmVars, exitRequested, selfTerm, swIt>>

\* ---------------------------------- InstanceImpl::getListenSocketByIndex
\* socket_map_[key]: std::map::operator[] adds an empty entry for a missing key
MapAt(map, key) ==
  IF key \in DOMAIN map THEN map ELSE MapPut(map, key, [fd |-> -1, address |-> 0,
                                                        origin |-> "null"])

\* if (index < config_->listeners().size()) return socket_map_[listener at index]
getListenSocketByIndex(index) ==
  IF index < MaxListeners THEN MapAt(socket_map, index + 1) ELSE socket_map

\* a child process asks this process for a listen socket by its index
ChildGetsSocket ==
  /\ Dispatching
  /\ hist.shutdownAdmin > 0
  /\ \E index \in 0..MaxListeners : socket_map' = getListenSocketByIndex(index)
  /\ UNCHANGED <<restVars, stack, envVars, parentVars, ctorVars, wireVars, sockIt, imVars, cmVars,
                 loopVars, swIt, hist>>

\* ----------------------------------------- InstanceImpl::getParentStats
\* a child process asks this process for its statistics
ChildGetsParentStats ==
  /\ Dispatching
  /\ hist.shutdownAdmin > 0
  /\ hist' = getParentStats(hist)
  /\ UNCHANGED <<restVars, stack, envVars, parentVars, ctorVars, wireVars, sockVars,
                 imVars, cmVars, loopVars, swIt>>

\* ----------------------------------------- InstanceImpl::drainListeners

\* mutant: the main thread closes the listeners of every worker itself
DrainListeners_direct ==
  /\ Dispatching
  /\ hist.shutdownAdmin > 0
  /\ hist.drainListeners = 0
  /\ closed' = [w \in DOMAIN closed |-> TRUE]
  /\ hist' = [hist EXCEPT
       !.drainListeners = @ + 1,
       !.access = @ \cup {[op |-> "closeListeners", thread |-> "main", writes |-> TRUE] :
                          w \in {v \in DOMAIN workers : workers[v] = "running"}}]
  /\ UNCHANGED <<posted, uptime_, debugBuild, stack, envVars, parentVars, ctorVars,
                 wireVars, sockVars, imVars, cmVars, loopVars, swIt>>

\* a child process, its workers started, tells this process to drain
\* (drainParentListeners): drainListeners() posts closeListeners to the
\* dispatcher of every worker and calls drain_manager_->startDrainSequence()
DrainListeners ==
  /\ Dispatching
  /\ hist.shutdownAdmin > 0
  /\ hist.drainListeners = 0
  /\ posted' = [w \in DOMAIN posted |-> TRUE]
  /\ hist' = Bump("drainListeners")
  /\ UNCHANGED <<closed, uptime_, debugBuild, stack, envVars, parentVars, ctorVars,
                 wireVars, sockVars, imVars, cmVars, loopVars, swIt>>

\* the thread of worker w runs the task posted to its dispatcher:
\* worker_ref.handler()->closeListeners()
WorkerRunsPosted(w) ==
  /\ workers[w] = "running"
  /\ posted[w]
  /\ posted' = [posted EXCEPT ![w] = FALSE]
  /\ closed' = [closed EXCEPT ![w] = TRUE]
  /\ hist' = [hist EXCEPT !.access = @ \cup {[op |-> "closeListeners",
                                               thread |-> "worker", writes |-> TRUE]}]
  /\ UNCHANGED <<uptime_, debugBuild, stack, envVars, parentVars, ctorVars, wireVars,
                 sockVars, imVars, cmVars, loopVars, swIt>>

\* ------------------------------------------------- admin /healthcheck
\* the admin handler of the parent serves /healthcheck/fail or /healthcheck/ok
\* while this process is being constructed: the liveness gauge is in the
\* shared memory both processes use
ParentAdminFailHealthcheck ==
  /\ hasParent /\ parentAdmin /\ parentAlive
  /\ pc \notin {"ctor_threw", "exit1"}
  /\ \E fail \in BOOLEAN : failHealthcheck(fail, hist)
  /\ UNCHANGED <<restVars, stack, envVars, parentVars, original_start_time, versionSet,
                 restarterInit, drain_manager, wireVars, sockVars, imVars, cmVars,
                 loopVars, swIt>>

\* ------------------------------------- InstanceImpl::run after the loop
Did(step) == [hist EXCEPT !.teardown = Append(@, step)]

\* dispatcher().run(Block) returns once exit() was called;
\* guard_dog_->stopWatching(watchdog)
RunLoopExit ==
  /\ pc = "run_loop"
  /\ exitRequested
  /\ hist' = Did("stopWatching")
  /\ Goto("run_shutdownThreading")
  /\ UNCHANGED <<restVars, envVars, parentVars, ctorVars, wireVars, sockVars, imVars, cmVars,
                 loopVars, swIt>>


\* mutant: stats threading is left on when the workers are told to exit
RunShutdownThreading_skip ==
  /\ pc = "run_shutdownThreading"
  /\ Goto("run_workersExit")
  /\ UNCHANGED <<restVars, envVars, parentVars, ctorVars, wireVars, sockVars, imVars,
                 cmVars, loopVars, swIt, hist>>

\* stats_store_.shutdownThreading()
RunShutdownThreading ==
  /\ pc = "run_shutdownThreading"
  /\ statsThreading' = "shutdown"
  /\ hist' = Did("shutdownThreading")
  /\ Goto("run_workersExit")
  /\ UNCHANGED <<restVars, envVars, parentVars, ctorVars, adminRegistered, workers, tlsMain,
                 sigInstalled, stat_flush_timer, sockVars, imVars, cmVars, loopVars, swIt>>

\* worker->exit() for every worker
RunWorkersExit ==
  /\ pc = "run_workersExit"
  /\ workers' = [w \in DOMAIN workers |-> "exited"]
  /\ posted' = [w \in DOMAIN posted |-> FALSE]
  /\ hist' = Did("workersExit")
  /\ Goto("run_finalFlush")
  /\ UNCHANGED <<closed, uptime_, debugBuild, envVars, parentVars, ctorVars, adminRegistered, tlsMain, statsThreading,
                 sigInstalled, stat_flush_timer, sockVars, imVars, cmVars, loopVars, swIt>>


\* mutant: the last flush does not test stat_flush_timer_
RunFinalFlush_unconditional ==
  /\ pc = "run_finalFlush"
  /\ flushStats(Did("flushStats"))
  /\ Goto("run_cmShutdown")
  /\ UNCHANGED <<handlerVars, debugBuild, envVars, parentVars, ctorVars, adminRegistered,
                 workers, tlsMain, statsThreading, sigInstalled, sockVars, imVars, cmVars,
                 loopVars, swIt>>

\* if (stat_flush_timer_) { flushStats(); }
RunFinalFlush ==
  /\ pc = "run_finalFlush"
  /\ IF stat_flush_timer # "null"
       THEN flushStats(Did("flushStats"))
       ELSE UNCHANGED <<stat_flush_timer, uptime_, hist>>
  /\ Goto("run_cmShutdown")
  /\ UNCHANGED <<handlerVars, debugBuild, envVars, parentVars, ctorVars, adminRegistered, workers, tlsMain,
                 statsThreading, sigInstalled, sockVars, imVars, cmVars, loopVars, swIt>>

\* config_->clusterManager().shutdown()
RunCmShutdown ==
  /\ pc = "run_cmShutdown"
  /\ hist' = Did("cmShutdown")
  /\ Goto("run_closeConnections")
  /\ UNCHANGED <<restVars, envVars, parentVars, ctorVars, wireVars, sockVars, imVars, cmVars,
                 loopVars, swIt>>

\* handler_.closeConnections()
RunCloseConnections ==
  /\ pc = "run_closeConnections"
  /\ hist' = Did("closeConnections")
  /\ Goto("run_shutdownThread")
  /\ UNCHANGED <<restVars, envVars, parentVars, ctorVars, wireVars, sockVars, imVars, cmVars,
                 loopVars, swIt>>

\* thread_local_.shutdownThread(); run() returns and the process exits
RunShutdownThread ==
  /\ pc = "run_shutdownThread"
  /\ tlsMain' = "shutdown"
  /\ hist' = [hist EXCEPT !.teardown = Append(@, "shutdownThread"),
                          !.tlsShutdown = @ + 1]
  /\ Halt("exited")
  /\ UNCHANGED <<restVars, envVars, parentVars, ctorVars, adminRegistered, workers, statsThreading,
                 sigInstalled, stat_flush_timer, sockVars, imVars, cmVars, loopVars, swIt>>

\* ------------------------------- InitManagerImpl::registerTarget, late
\* initialize(callback) was entered
ImEntered == state_ # "NotInitialized" \/ InFrame("im_fast_setState")

\* registerTarget(t) called after initialize was entered: from a target's
\* initialize, around a completion callback, or from done.  The ASSERT on
\* state_ aborts a debug build when it fails; a build with NDEBUG has no
\* ASSERT.  Then targets_.push_back(&target)
LateRegisterTarget ==
  /\ pc \in {"im_advance", "cb_return", "sw_loop"}
  /\ ImEntered
  /\ \E t \in {u \in Targets : u = Cardinality(hist.registered) + 1} :
       IF debugBuild /\ state_ # "NotInitialized"
         THEN /\ Halt("aborted")
              /\ UNCHANGED <<targets_, hist>>
         ELSE /\ targets_' = Append(targets_, t)
              /\ hist' = [hist EXCEPT !.registered = @ \cup {t},
                                      !.lateRegistered = @ \cup {t}]
              /\ stack' = stack
  /\ UNCHANGED <<restVars, envVars, parentVars, ctorVars, wireVars, sockVars, state_,
                 callback_, imIt, imStale, cbTarget, pendingCb, cmVars, loopVars, swIt>>

\* registerTarget(t) for a target that is registered already
DuplicateRegisterTarget ==
  /\ pc = "init_mainConfig"
  /\ hist.dupRegistered = {}
  /\ \E t \in hist.registered :
       /\ registerTarget(t)
       /\ hist' = [hist EXCEPT !.dupRegistered = {t}]
  /\ UNCHANGED <<restVars, stack, envVars, parentVars, ctorVars, wireVars, sockVars, state_,
                 callback_, imIt, imStale, cbTarget, pendingCb, cmVars, loopVars, swIt>>

\* a target that called its completion callback calls it a second time
DuplicateCallback ==
  /\ Dispatching
  /\ ~hist.dupCallback
  /\ \E t \in hist.calledBack : cbTarget' = t
  /\ hist' = [hist EXCEPT !.dupCallback = TRUE]
  /\ Call("run_loop", "cb_entry")
  /\ UNCHANGED <<restVars, envVars, parentVars, ctorVars, wireVars, sockVars, state_, targets_,
                 callback_, imIt, imStale, pendingCb, cmVars, loopVars, swIt>>

\* ------------------------------------------------------- specification
\* steps of the main thread
MainStep ==
  \/ CtorFailHealthcheck \/ CtorVersion \/ CtorRestarterInit \/ CtorDrainManager
  \/ CtorCatch
  \/ InitLoadConfig \/ InitShutdownParentAdmin \/ InitAdmin \/ InitAddAdminListener
  \/ InitLoadServerFlags \/ InitWorkers \/ InitRegisterThread \/ InitStatsThreading
  \/ RegisterTarget \/ InitMainConfig \/ InitSockets \/ InitSignals \/ InitStatSinks
  \/ InitFlushTimer \/ InitSetInitializedCb
  \/ ImEntry \/ ImFastSetState \/ ImInitTarget \/ ImAdvance \/ ImLoopEnd
  \/ CbEntry \/ CbReturn
  \/ SwEntry \/ SwInitWorker \/ SwDrainParent \/ SwParentShutdownSeq
  \/ RunEntry
  \/ SigtermTerminateParent \/ SigtermExit \/ Sigusr1 \/ Sighup
  \/ ShutdownAdminClose \/ ShutdownAdminTerminate
  \/ RunLoopExit \/ RunShutdownThreading \/ RunWorkersExit \/ RunFinalFlush
  \/ RunCmShutdown \/ RunCloseConnections \/ RunShutdownThread

\* events the dispatcher of the main thread delivers
EventStep ==
  \/ ExternalSignal \/ SelfSigterm \/ CmInitialized \/ TargetCompletes
  \/ FlushTimer \/ ChildShutdownAdmin \/ ChildGetsSocket
  \/ ChildGetsParentStats \/ DrainListeners

\* steps of the worker threads
WorkerStep == \E w \in DOMAIN workers : WorkerRunsPosted(w)

\* steps of the parent process
ParentStep == ParentAdminFailHealthcheck

Next == MainStep \/ EventStep \/ WorkerStep \/ ParentStep

Spec == Init /\ [][Next]_vars

\* the main thread is scheduled: a statement it can execute is executed
FairSpec == Spec /\ WF_vars(MainStep)

\* and a signal the process sent to itself is delivered: the dispatcher runs
\* the callback of a pending signal in its next iteration
FairSignalSpec == FairSpec /\ SF_vars(SelfSigterm)

\* the server with callers that register a target late
MisuseStep == LateRegisterTarget

NextMisuse == Next \/ MisuseStep

SpecMisuse == InitMisuse /\ [][NextMisuse]_vars

\* the server, started without a parent process, with a target that is
\* registered twice or calls back twice
InitDuplicate == InitMisuse /\ ~hasParent

DuplicateStep == DuplicateRegisterTarget \/ DuplicateCallback

NextDuplicate == MainStep \/ EventStep \/ WorkerStep \/ DuplicateStep

SpecDuplicate == InitDuplicate /\ [][NextDuplicate]_vars

\* ================================================================ claims
AllCalledBack == hist.registered \subseteq hist.calledBack

\* C1: with one or more distinct targets registered before the single
\* initialize(done), done (startWorkers) is never invoked twice, it is not
\* invoked while a registered target has not called back, and once every
\* registered target has called back it has been invoked exactly once
C1_Barrier ==
  /\ hist.startWorkers <= 1
  /\ (hist.startWorkers >= 1 \/ InFrame("sw_entry")) => AllCalledBack
  /\ (hist.registered # {} /\ AllCalledBack /\ pc # "sw_entry") => hist.startWorkers = 1

\* two targets were registered, both called back, and done ran once
C1_Witness ==
  /\ hist.registered = {1, 2}
  /\ hist.calledBack = {1, 2}
  /\ hist.startWorkers = 1
  /\ hist.runEntered

\* C2: with no target registered, when initialize(done) has returned done was
\* invoked exactly once (so before the return) and state_ is Initialized
C2_EmptyCase ==
  (hist.imReturned /\ hist.registered = {}) =>
     (hist.startWorkers = 1 /\ state_ = "Initialized" /\ ~InFrame("sw_entry"))

C2_Witness == hist.imReturned /\ hist.registered = {} /\ hist.startWorkers = 1

StateRank(st) ==
  CASE st = "NotInitialized" -> 0
    [] st = "Initializing" -> 1
    [] st = "Initialized" -> 2

\* C3: no step moves state_ backwards in the order NotInitialized,
\* Initializing, Initialized, and no step changes it once it is Initialized
C3_StateAdvances ==
  [][/\ StateRank(state_') >= StateRank(state_)
     /\ state_ = "Initialized" => state_' = "Initialized"]_vars

\* state_ became Initialized through the loop over the targets, which returned
C3_Witness ==
  /\ state_ = "Initialized"
  /\ hist.imReturned
  /\ hist.registered # {}
  /\ pc = "exited"

SomeWorkerInitialized ==
  \E w \in DOMAIN hist.initCfg : hist.initCfg[w] > 0

\* C4: initializeConfiguration is called on a worker only after the cluster
\* manager ran the initialized callback (all clusters initialized) and every
\* target registered with the init manager has called back
C4_WorkersGated ==
  SomeWorkerInitialized => (cmInitialized /\ cmCb = "fired" /\ AllCalledBack)

\* the cluster manager reported from the main loop, two targets called back,
\* then a worker was initialized
C4_Witness ==
  /\ SomeWorkerInitialized
  /\ hist.registered = {1, 2}
  /\ InFrame("run_loop")

\* C5: the parent's admin listener is shut down before this process registers
\* its own, and this process shuts its own down before its child registers
\* one: two processes never have their admin listener registered together
C5_AdminHandoff ==
  /\ ~(parentAdmin /\ adminRegistered)
  /\ ~(adminRegistered /\ successorAdmin)

\* a process with a parent has registered its admin listener
C5_Witness == hasParent /\ adminRegistered /\ ~parentAdmin

AllWorkersInitialized ==
  /\ Len(hist.initCfg) = NumWorkers
  /\ \A w \in 1..NumWorkers : hist.initCfg[w] >= 1

\* C6: drainParentListeners is called only after initializeConfiguration was
\* called on every worker, startParentShutdownSequence only after
\* drainParentListeners, and neither before startWorkers runs
C6_DrainAfterWorkers ==
  /\ hist.drainParent > 0 => (AllWorkersInitialized /\ hist.startWorkers > 0)
  /\ hist.parentShutdownSeq > 0 => (hist.drainParent > 0 /\ hist.startWorkers > 0)

\* with a parent and two workers, the parent shutdown sequence was started
C6_Witness ==
  /\ hasParent
  /\ Len(workers) = 2
  /\ hist.parentShutdownSeq > 0
  /\ ~parentListening

\* C7: drainParentListeners and startParentShutdownSequence are called only
\* when no worker's initializeConfiguration raised CreateListenerException
C7_DrainOnlyOnSuccess ==
  (hist.drainParent > 0 \/ hist.parentShutdownSeq > 0) => hist.threw = <<>>

ListenersDone == sockIt > MaxListeners

\* C8: once the loop over the listeners is done, socket_map_ has exactly one
\* socket for every configured listener and no other entry; the parent was
\* asked exactly once per listener; the socket wraps the descriptor the parent
\* returned if and only if that was not -1 (which is when the parent has a
\* socket on the address) and is a newly bound one otherwise
C8_SocketMap ==
  ListenersDone =>
    /\ DOMAIN socket_map = Listeners
    /\ \A l \in Listeners :
         /\ hist.dup[l] = 1
         /\ socket_map[l].address = Address(l)
         /\ socket_map[l].origin \in {"parent", "bound"}
         /\ socket_map[l].origin = "parent" <=> hist.dupFd[l] # -1
         /\ hist.dupFd[l] # -1 <=> (hasParent /\ Address(l) \in parentSockets)
         /\ socket_map[l].origin = "parent" => socket_map[l].fd = ParentFd(Address(l))
         /\ socket_map[l].origin = "bound" => socket_map[l].fd = FreshFd(l)

\* one listener's socket came from the parent, another's was bound, and a child
\* asked for a socket by index afterwards
C8_Witness ==
  /\ ListenersDone
  /\ \E a, b \in DOMAIN socket_map :
       socket_map[a].origin = "parent" /\ socket_map[b].origin = "bound"
  /\ hist.shutdownAdmin > 0

\* the variables other than the call stack and the observations; a step that
\* changes the stack is a step of the main thread
serverVars == <<envVars, parentVars, ctorVars, wireVars, sockVars, imVars, cmVars,
                loopVars, swIt, restVars>>

TeardownComplete ==
  /\ pc = "exited"
  /\ tlsMain = "shutdown"
  /\ \A w \in DOMAIN workers : workers[w] = "exited"
  /\ hist.teardown[Len(hist.teardown)] = "shutdownThread"

\* C9: the SIGTERM callback calls terminateParent first and requests the loop
\* exit second, and nothing else requests it; after the SIGTERM callback ran,
\* run() eventually leaves the loop and completes its teardown; the SIGHUP
\* callback changes no server state and the SIGUSR1 callback only reopens the
\* access logs, so neither makes the loop exit
C9_SigtermExits ==
  /\ [](exitRequested => hist.sigterm >= 1)
  /\ [][exitRequested' # exitRequested => pc = "sigterm_exit"]_vars
  /\ [][(pc = "sighup_log" /\ stack' # stack) => UNCHANGED <<serverVars, hist>>]_vars
  /\ [][(pc = "sigusr1_reopen" /\ stack' # stack) =>
          (UNCHANGED serverVars /\ hist' = [hist EXCEPT !.reopened = TRUE])]_vars
  /\ (hist.sigterm >= 1) ~> TeardownComplete

\* SIGTERM was handled after SIGUSR1, and the process exited through run()
C9_Witness ==
  /\ pc = "exited"
  /\ hist.sigterm >= 1
  /\ hist.reopened

\* C10: when a step of initialize() raised EnvoyException, control is in the
\* catch block of the constructor or the process has exited with status 1
\* after thread_local_.shutdownThread(); no worker was started, startWorkers
\* did not run and run() was not entered
C10_InitFailure ==
  hist.initThrew =>
    /\ stack \in {<<"catch_shutdownThread">>, <<"exit1">>}
    /\ pc = "exit1" => (tlsMain = "shutdown" /\ hist.tlsShutdown = 1)
    /\ \A w \in DOMAIN workers : workers[w] = "constructed"
    /\ ~SomeWorkerInitialized
    /\ hist.startWorkers = 0
    /\ ~hist.runEntered

\* binding a listen socket threw after the workers were constructed, and the
\* process exited with status 1
C10_Witness ==
  /\ hist.initThrew
  /\ pc = "exit1"
  /\ workers # <<>>
  /\ sockIt >= 1

\* a configuration error was met: initialize() raised EnvoyException or the
\* build SHA did not parse
ConfigError == hist.initThrew \/ hist.shaInvalid

\* C11: after any configuration error, the build SHA that does not parse
\* included, control is in the catch block of the constructor or the process
\* has exited with status 1 after thread_local_.shutdownThread(); when the SHA
\* does not parse the hot restarter is not initialized and no drain manager is
\* created
C11_ConfigErrorFatal ==
  /\ ConfigError =>
       /\ pc \in {"catch_shutdownThread", "exit1"}
       /\ pc = "exit1" => (tlsMain = "shutdown" /\ hist.tlsShutdown = 1)
  /\ hist.shaInvalid => (~restarterInit /\ ~drain_manager)

\* C12: after a worker's initializeConfiguration raised
\* CreateListenerException the process never ends through exit(1) or an abort,
\* and it eventually handles SIGTERM and completes the teardown of run(); also
\* when startWorkers ran during construction
C12_BindRaceSingleExit ==
  /\ [](hist.threw # <<>> => pc \notin {"exit1", "crashed", "aborted"})
  /\ (hist.threw # <<>>) ~> (TeardownComplete /\ hist.sigterm >= 1)

MainConfigReached == pc = "init_mainConfig" \/ sockIt >= 1 \/ hist.registered # {}

TlsReady ==
  /\ Len(workers) = NumWorkers
  /\ tlsMain # "none"
  /\ statsThreading # "off"

\* C14: when the main configuration is parsed, and when a worker's
\* initializeConfiguration is called, every worker is constructed, the main
\* thread is registered and stats threading is initialized; once a worker's
\* thread runs no worker is constructed and the main thread is not registered
C14_TlsBeforeThreads ==
  /\ []((MainConfigReached \/ SomeWorkerInitialized) => TlsReady)
  /\ [][(\E w \in DOMAIN workers : workers[w] = "running") =>
          /\ Len(workers') = Len(workers)
          /\ tlsMain' = "registered" => tlsMain = "registered"]_vars

\* two workers run after targets registered while the configuration was parsed
C14_Witness ==
  /\ Len(workers) = 2
  /\ \A w \in DOMAIN workers : workers[w] = "running"
  /\ hist.registered # {}
  /\ tlsMain = "registered"

ExpectedStartTime == IF hasParent THEN ParentStartTime ELSE ChildStartTime

\* C15: from the return of shutdownParentAdmin on original_start_time_ is the
\* parent's value, or the own start time without a parent; no other step
\* changes it; every flush sets the uptime to the time passed since it
C15_UptimeContinuity ==
  /\ []((pc = "init_admin" \/ adminRegistered \/ workers # <<>>) =>
          original_start_time = ExpectedStartTime)
  /\ [](uptime_ # -1 => uptime_ = FlushTime - ExpectedStartTime)
  /\ [][original_start_time' # original_start_time =>
          pc = "init_shutdownParentAdmin"]_vars

\* a process with a parent has flushed its stats
C15_Witness ==
  /\ hasParent
  /\ hist.flushed
  /\ uptime_ = FlushTime - ParentStartTime

\* after a call failHealthcheck(b), healthCheckFailed() is b
LastFailHolds == hist.failArg # {} => hist.failArg = {healthCheckFailed}

\* C16 as stated: when the constructor has returned healthCheckFailed() is true
\* exactly if a flags path is set and the file drain exists under it; after
\* failHealthcheck(b) healthCheckFailed() is b until the next call
C16_DrainFlagAtStart ==
  /\ pc = "ctor_return" => (healthCheckFailed <=> hist.drainFile)
  /\ LastFailHolds

\* C16 amended: when the constructor has returned healthCheckFailed() is true
\* if the file drain exists under the flags path, and without a parent process
\* only then; after failHealthcheck(b) healthCheckFailed() is b until the next
\* call (of this process or of the parent, which shares the gauge)
C16_DrainFlagAmended ==
  /\ pc = "ctor_return" =>
       /\ hist.drainFile => healthCheckFailed
       /\ ~hasParent => (healthCheckFailed <=> hist.drainFile)
  /\ LastFailHolds

\* a process with a parent was constructed with the file drain present
C16_Witness ==
  /\ pc = "ctor_return"
  /\ hasParent
  /\ hist.drainFile
  /\ healthCheckFailed

DoneRunning ==
  InFrame("sw_entry") \/ InFrame("sw_loop") \/ InFrame("sw_parentShutdownSeq")

\* C17: while done (startWorkers) is executing, state_ is Initialized
C17_DoneSeesInitialized == DoneRunning => state_ = "Initialized"

\* C19: the loop of initialize(done) does not crash, calls initialize on every
\* registered target exactly once, and done is invoked at most once, also
\* when targets call back inside their initialize
C19_IterationSafe ==
  /\ pc # "crashed"
  /\ \A t \in Targets : hist.targetInit[t] <= 1
  /\ hist.imReturned => \A t \in hist.registered : hist.targetInit[t] = 1
  /\ hist.startWorkers <= 1

TeardownOrder ==
  <<"stopWatching", "shutdownThreading", "workersExit", "flushStats", "cmShutdown",
    "closeConnections", "shutdownThread">>

IsPrefix(s, t) == Len(s) <= Len(t) /\ s = SubSeq(t, 1, Len(s))

\* C20: the steps of run() after the loop happen in the order stopWatching,
\* shutdownThreading, exit of every worker, flushStats (exactly if the flush
\* timer exists), cluster manager shutdown, closeConnections, shutdownThread,
\* each at most once and only after the loop returned; stats threading is shut
\* down when a worker is told to exit
C20_ShutdownOrder ==
  /\ \/ IsPrefix(hist.teardown, TeardownOrder)
     \/ IsPrefix(hist.teardown, SelectSeq(TeardownOrder, LAMBDA x : x # "flushStats"))
  /\ hist.teardown # <<>> => exitRequested
  /\ "cmShutdown" \in Range(hist.teardown) =>
       ("flushStats" \in Range(hist.teardown) <=> stat_flush_timer # "null")
  /\ (\E w \in DOMAIN workers : workers[w] = "exited") =>
       (statsThreading = "shutdown" /\ "workersExit" \in Range(hist.teardown))
  /\ pc = "exited" => "shutdownThread" \in Range(hist.teardown)

\* run() completed its teardown with a last flush
C20_Witness ==
  /\ pc = "exited"
  /\ Len(hist.teardown) = Len(TeardownOrder)

\* C18: no target is added to targets_ once initialize(done) was entered, so
\* that after initialize returned every registered target has been initialized
C18_NoLateRegistration ==
  /\ hist.lateRegistered = {}
  /\ (hist.imReturned /\ ~InFrame("im_advance")) =>
       \A t \in hist.registered : hist.targetInit[t] >= 1

\* C21: flushStats never runs while stat_flush_timer_ is null and never after
\* shutdownAdmin ran; after shutdownAdmin reset the timer it stays null, so
\* run() makes no last flush; a flush leaves the timer armed
C21_NoFlushAfterHandoff ==
  /\ ~hist.flushNoTimer
  /\ ~hist.flushAfterAdmin
  /\ (hist.shutdownAdmin > 0 /\ pc # "sa_close") => stat_flush_timer = "null"
  /\ "flushStats" \in Range(hist.teardown) =>
       (hist.shutdownAdmin = 0 /\ stat_flush_timer = "armed")
  /\ (hist.flushed /\ hist.shutdownAdmin = 0) => stat_flush_timer = "armed"

\* the timer flushed, then a child took the admin over, then run() ended
\* without a last flush
C21_Witness ==
  /\ pc = "exited"
  /\ hist.flushed
  /\ hist.shutdownAdmin > 0
  /\ "flushStats" \notin Range(hist.teardown)

\* C22: in startWorkers initializeConfiguration is called once on every worker
\* in the order of workers_, whether or not earlier workers raised
\* CreateListenerException, and shutdown() is called once for each worker
\* that raised
C22_LoopContinues ==
  /\ \A w \in DOMAIN hist.initCfg :
       hist.initCfg[w] = IF w < swIt THEN 1 ELSE 0
  /\ hist.shutdown = Len(hist.threw)
  /\ \A i \in DOMAIN hist.threw :
       /\ hist.threw[i] < swIt
       /\ \A j \in DOMAIN hist.threw : i < j => hist.threw[i] < hist.threw[j]
  /\ hist.drainParent > 0 =>
       (Len(hist.initCfg) = NumWorkers /\ \A w \in DOMAIN hist.initCfg : hist.initCfg[w] = 1)

\* the first worker raised and the second was initialized after it
C22_Witness ==
  /\ Len(workers) = 2
  /\ hist.threw = <<1>>
  /\ workers[2] = "running"
  /\ hist.shutdown = 1

\* C23: also when a target is registered twice or calls its completion
\* callback twice, done (startWorkers) is invoked at most once, a completion
\* removes no more than the one entry of targets_ it belongs to, and state_
\* is Initialized from the invocation of done on
C23_DoneOnceUnderMisuse ==
  /\ hist.startWorkers <= 1
  /\ ~hist.removedMany
  /\ (hist.imReturned /\ hist.startWorkers >= 1) => state_ = "Initialized"

=============================================================================
